---------------------------- MODULE Spec2Model ----------------------------
(***************************************************************************)
(* Flavour Fusion (app.py): a Streamlit script that is re-executed from    *)
(* top to bottom for every browser session and every widget event.  One    *)
(* process serves several sessions; st.session_state is per session, the   *)
(* st.cache_resource cache and os.environ are per process.                 *)
(*                                                                         *)
(* Text is modelled as a sequence of one-character strings, the recipe     *)
(* returned by the service as a sequence of Unicode code points, and the   *)
(* downloaded file as a sequence of bytes.                                 *)
(***************************************************************************)
EXTENDS Integers, Sequences, FiniteSets, TLC

(***************************************************************************)
(* Bounds of the model.                                                    *)
(***************************************************************************)
\* send_message calls the whole process may make
MaxRequests == 2

\* seconds the wall clock may advance
MaxTicks == 1

\* send_message calls the form model may make
MaxFormRequests == 1

\* the browser sessions served by the one process
Sessions == {1, 2}

(***************************************************************************)
(* Literals of app.py.                                                     *)
(***************************************************************************)
\* app.py:12  the name looked up in os.environ
API_KEY_NAME == "GOOGLE_GEMINI_API_KEY"

\* app.py:52-58
generation_config ==
    [ temperature |-> "0.75", top_p |-> "0.95", top_k |-> 64,
      max_output_tokens |-> 8192, response_mime_type |-> "text/plain" ]

\* app.py:82
MODEL_NAME == "gemini-2.5-flash"

\* app.py:62-75
jokes ==
    << "Why don't scientists trust atoms? Because they make up everything!",
       "Why did the scarecrow win an award? Because he was outstanding in his field!",
       "Why don't skeletons fight each other? They don't have the guts.",
       "What do you call fake spaghetti? An impasta!",
       "Why did the bicycle fall over? Because it was two-tired!",
       "Why did the math book look sad? Because it had too many problems.",
       "What do you call cheese that isn't yours? Nacho cheese!",
       "Why can't your nose be 12 inches long? Because then it would be a foot!",
       "Why did the golfer bring two pairs of pants? In case he got a hole in one!",
       "What do you call a bear with no teeth? A gummy bear!",
       "Why did the cookie go to the doctor? Because it felt crumbly!",
       "What did the chef say when he criticized the pasta? 'It was an impasta!'" >>


\* app.py:162  the options of the cuisine selectbox
C_Any ==
    << "A", "n", "y" >>

C_Italian ==
    << "I", "t", "a", "l", "i", "a", "n" >>

C_Indian ==
    << "I", "n", "d", "i", "a", "n" >>

C_Chinese ==
    << "C", "h", "i", "n", "e", "s", "e" >>

C_Mexican ==
    << "M", "e", "x", "i", "c", "a", "n" >>

C_Mediterranean ==
    << "M", "e", "d", "i", "t", "e", "r", "r", "a", "n", "e", "a", "n" >>

C_AsianFusion ==
    << "A", "s", "i", "a", "n", " ", "F", "u", "s", "i", "o", "n" >>

C_American ==
    << "A", "m", "e", "r", "i", "c", "a", "n" >>

C_French ==
    << "F", "r", "e", "n", "c", "h" >>

CuisineOptions ==
    << C_Any, C_Italian, C_Indian, C_Chinese, C_Mexican, C_Mediterranean, C_AsianFusion, C_American, C_French >>

\* app.py:168-171  number_input(min_value, max_value, value, step)
MIN_WORDS == 100

MAX_WORDS == 5000

DEFAULT_WORDS == 500

WORD_STEP == 100

\* app.py:99-111  the literal pieces of the prompt f-string
PromptHead ==
    << "W", "r", "i", "t", "e", " ", "a", " ", "d", "e", "t", "a", "i", "l",
       "e", "d", " ", "a", "n", "d", " ", "e", "n", "g", "a", "g", "i", "n",
       "g", " ", "r", "e", "c", "i", "p", "e", " ", "b", "l", "o", "g", " ",
       "p", "o", "s", "t", " ", "a", "b", "o", "u", "t", " ", "'" >>

PromptAfterTopic ==
    << "'", " ", "\n", " ", " ", " ", " ", "w", "i", "t", "h", " ", "a", "p",
       "p", "r", "o", "x", "i", "m", "a", "t", "e", "l", "y", " " >>

PromptAfterCount ==
    << " ", "w", "o", "r", "d", "s", ".", " " >>

FocusOn ==
    << "F", "o", "c", "u", "s", " ", "o", "n", " " >>

CuisineEnd ==
    << " ", "c", "u", "i", "s", "i", "n", "e", "." >>

PromptTail ==
    << "\n", " ", " ", " ", " ", "\n", " ", " ", " ", " ", "I", "n", "c",
       "l", "u", "d", "e", ":", "\n", " ", " ", " ", " ", "-", " ", "B", "r",
       "i", "e", "f", " ", "i", "n", "t", "r", "o", "d", "u", "c", "t", "i",
       "o", "n", " ", "a", "b", "o", "u", "t", " ", "t", "h", "e", " ", "d",
       "i", "s", "h", "\n", " ", " ", " ", " ", "-", " ", "I", "n", "g", "r",
       "e", "d", "i", "e", "n", "t", "s", " ", "l", "i", "s", "t", " ", "w",
       "i", "t", "h", " ", "q", "u", "a", "n", "t", "i", "t", "i", "e", "s",
       "\n", " ", " ", " ", " ", "-", " ", "S", "t", "e", "p", "-", "b", "y",
       "-", "s", "t", "e", "p", " ", "c", "o", "o", "k", "i", "n", "g", " ",
       "i", "n", "s", "t", "r", "u", "c", "t", "i", "o", "n", "s", "\n", " ",
       " ", " ", " ", "-", " ", "T", "i", "p", "s", " ", "a", "n", "d", " ",
       "t", "r", "i", "c", "k", "s", "\n", " ", " ", " ", " ", "-", " ", "S",
       "e", "r", "v", "i", "n", "g", " ", "s", "u", "g", "g", "e", "s", "t",
       "i", "o", "n", "s", "\n", " ", " ", " ", " ", "-", " ", "N", "u", "t",
       "r", "i", "t", "i", "o", "n", "a", "l", " ", "i", "n", "f", "o", "r",
       "m", "a", "t", "i", "o", "n", " ", "(", "a", "p", "p", "r", "o", "x",
       "i", "m", "a", "t", "e", ")", "\n", " ", " ", " ", " ", "-", " ", "S",
       "t", "o", "r", "a", "g", "e", " ", "a", "n", "d", " ", "r", "e", "h",
       "e", "a", "t", "i", "n", "g", " ", "i", "n", "s", "t", "r", "u", "c",
       "t", "i", "o", "n", "s", "\n", " ", " ", " ", " ", "\n", " ", " ",
       " ", " ", "M", "a", "k", "e", " ", "i", "t", " ", "e", "n", "g", "a",
       "g", "i", "n", "g", ",", " ", "i", "n", "f", "o", "r", "m", "a", "t",
       "i", "v", "e", ",", " ", "a", "n", "d", " ", "e", "a", "s", "y", " ",
       "t", "o", " ", "f", "o", "l", "l", "o", "w", "." >>

\* app.py:216
FileSuffix ==
    << "_", "r", "e", "c", "i", "p", "e", ".", "t", "x", "t" >>

\* app.py:146-147
show_joke == TRUE

save_history == TRUE

(***************************************************************************)
(* Python built-ins used by app.py, computed as Python computes them.      *)
(***************************************************************************)
\* characters str.strip() removes when called without argument
Whitespace == {" ", "\t", "\n", "\r", "\f"}

RECURSIVE lstrip(_)
lstrip(s) ==
    IF s # << >> /\ Head(s) \in Whitespace THEN lstrip(Tail(s)) ELSE s

RECURSIVE rstrip(_)
rstrip(s) ==
    IF s # << >> /\ s[Len(s)] \in Whitespace
    THEN rstrip(SubSeq(s, 1, Len(s) - 1))
    ELSE s

\* mutant: the topic is tested without stripping it
strip_nothing(s) == s

\* str.strip()
strip(s) == rstrip(lstrip(s))

\* str.replace(old, new) for one-character old and new: every occurrence,
\* scanning from the left
RECURSIVE replace(_, _, _)
replace(s, old, new) ==
    IF s = << >> THEN << >>
    ELSE << IF Head(s) = old THEN new ELSE Head(s) >>
         \o replace(Tail(s), old, new)

LowerCase ==
    << "a", "b", "c", "d", "e", "f", "g", "h", "i", "j", "k", "l", "m",
       "n", "o", "p", "q", "r", "s", "t", "u", "v", "w", "x", "y", "z" >>

UpperCase ==
    << "A", "B", "C", "D", "E", "F", "G", "H", "I", "J", "K", "L", "M",
       "N", "O", "P", "Q", "R", "S", "T", "U", "V", "W", "X", "Y", "Z" >>

IndexIn(c, alphabet) ==
    CHOOSE i \in 1..Len(alphabet) : alphabet[i] = c

IsLower(c) == \E i \in 1..Len(LowerCase) : LowerCase[i] = c

IsUpper(c) == \E i \in 1..Len(UpperCase) : UpperCase[i] = c

IsCased(c) == IsLower(c) \/ IsUpper(c)

upper(c) == IF IsLower(c) THEN UpperCase[IndexIn(c, LowerCase)] ELSE c

lower(c) == IF IsUpper(c) THEN LowerCase[IndexIn(c, UpperCase)] ELSE c

\* str.title(): a cased character is upper-cased when it follows an uncased
\* one (or starts the string) and lower-cased otherwise
title(s) ==
    [ i \in 1..Len(s) |->
        IF i > 1 /\ IsCased(s[i - 1]) THEN lower(s[i]) ELSE upper(s[i]) ]

Digits == << "0", "1", "2", "3", "4", "5", "6", "7", "8", "9" >>

\* str(n) / f"{n}" for a non-negative int: decimal, no leading zero
RECURSIVE str(_)
str(n) ==
    IF n < 10 THEN << Digits[n + 1] >>
    ELSE str(n \div 10) \o << Digits[(n % 10) + 1] >>

\* f"{n:0w}" as strftime pads its numeric fields
RECURSIVE zfill(_, _)
zfill(s, width) ==
    IF Len(s) >= width THEN s ELSE zfill(<< "0" >> \o s, width)

\* needle in hay
In(needle, hay) ==
    \E i \in 1..(Len(hay) - Len(needle) + 1) :
        SubSeq(hay, i, i + Len(needle) - 1) = needle

\* bool(x) of an Optional[str]: None and "" are falsy
None == [ some |-> FALSE, value |-> << >> ]

Some(v) == [ some |-> TRUE, value |-> v ]

Truthy(opt) == opt.some /\ opt.value # << >>

\* str.encode('utf-8') of one code point
EncodeCodePoint(cp) ==
    IF cp < 128 THEN << cp >>
    ELSE IF cp < 2048 THEN << 192 + (cp \div 64), 128 + (cp % 64) >>
    ELSE IF cp < 65536
    THEN << 224 + (cp \div 4096), 128 + ((cp \div 64) % 64), 128 + (cp % 64) >>
    ELSE << 240 + (cp \div 262144), 128 + ((cp \div 4096) % 64),
            128 + ((cp \div 64) % 64), 128 + (cp % 64) >>

\* str.encode('utf-8')
RECURSIVE encode(_)
encode(text) ==
    IF text = << >> THEN << >>
    ELSE EncodeCodePoint(Head(text)) \o encode(Tail(text))

\* datetime.now().strftime("%Y-%m-%d %H:%M:%S")
strftime(dt) ==
    zfill(str(dt.year), 4) \o << "-" >> \o zfill(str(dt.month), 2)
    \o << "-" >> \o zfill(str(dt.day), 2) \o << " " >>
    \o zfill(str(dt.hour), 2) \o << ":" >> \o zfill(str(dt.minute), 2)
    \o << ":" >> \o zfill(str(dt.second), 2)

(***************************************************************************)
(* Functions of app.py.                                                    *)
(***************************************************************************)
\* get_joke(): random.choice(jokes); j is the index random.choice draws
get_joke(j) == jokes[j]

\* GenerativeModel(MODEL_NAME, generation_config=generation_config); n numbers
\* the objects the process has constructed
GenerativeModel(n) ==
    [ id |-> n, model_name |-> MODEL_NAME, generation_config |-> generation_config ]

\* mutant: get_model without the cache decorator
get_model_uncached(cache, built) ==
    [ model |-> GenerativeModel(built + 1),
      cache |-> << GenerativeModel(built + 1) >>,
      built |-> built + 1 ]

\* @st.cache_resource get_model(): the cached object when there is one,
\* otherwise a newly constructed object that is then cached
get_model(cache, built) ==
    IF cache # << >>
    THEN [ model |-> cache[1], cache |-> cache, built |-> built ]
    ELSE [ model |-> GenerativeModel(built + 1),
           cache |-> << GenerativeModel(built + 1) >>,
           built |-> built + 1 ]

\* the f-string recipe_generator sends
BuildPrompt(user_input, word_count, cuisine_type) ==
    PromptHead \o user_input \o PromptAfterTopic \o str(word_count)
    \o PromptAfterCount
    \o (IF Truthy(cuisine_type)
        THEN FocusOn \o cuisine_type.value \o CuisineEnd
        ELSE << >>)
    \o PromptTail

\* mutant: the selection is passed on as it is
cuisine_filter_unfiltered(cuisine_type) == Some(cuisine_type)

\* cuisine_filter = None if cuisine_type == "Any" else cuisine_type
cuisine_filter(cuisine_type) ==
    IF cuisine_type = C_Any THEN None ELSE Some(cuisine_type)

\* mutant: the record is put in front
save_recipe_to_history_front(history, timestamp, topic, recipe, word_count, cuisine) ==
    << [ timestamp |-> timestamp, topic |-> topic, cuisine |-> cuisine,
         word_count |-> word_count, recipe |-> recipe ] >> \o history

\* save_recipe_to_history(topic, recipe, word_count, cuisine)
save_recipe_to_history(history, timestamp, topic, recipe, word_count, cuisine) ==
    Append(history,
           [ timestamp |-> timestamp, topic |-> topic, cuisine |-> cuisine,
             word_count |-> word_count, recipe |-> recipe ])

\* mutant: one byte per code point, as a single-byte codec would write it
download_recipe_one_byte(recipe_text) ==
    [ i \in 1..Len(recipe_text) |-> recipe_text[i] % 256 ]

\* download_recipe(recipe_text)
download_recipe(recipe_text) == encode(recipe_text)

\* file_name=f"{user_input.replace(' ', '_')}_recipe.txt"
file_name(user_input) == replace(user_input, " ", "_") \o FileSuffix

\* mutant: `api_key is None`
api_key_missing_unset_only(env) == ~ (API_KEY_NAME \in DOMAIN env)

\* `not api_key`
api_key_missing(env) ==
    ~ (API_KEY_NAME \in DOMAIN env) \/ env[API_KEY_NAME] = << >>

\* mutant: the list is assigned on every run
init_session_state_always(state) ==
    [ keys |-> state.keys \cup {"recipe_history"}, recipe_history |-> << >> ]

\* `"recipe_history" not in st.session_state` / `= []`
init_session_state(state) ==
    IF "recipe_history" \in state.keys
    THEN state
    ELSE [ keys |-> state.keys \cup {"recipe_history"}, recipe_history |-> << >> ]

(***************************************************************************)
(* The wall clock: seconds since midnight of one day.                      *)
(***************************************************************************)
Today == [ year |-> 2026, month |-> 11, day |-> 2 ]

\* 09:59:59, so that a tick carries into the minute and the hour
ClockStart == 35999

datetime(t) ==
    [ year |-> Today.year, month |-> Today.month, day |-> Today.day,
      hour |-> t \div 3600, minute |-> (t \div 60) % 60, second |-> t % 60 ]

(***************************************************************************)
(* State.                                                                  *)
(***************************************************************************)
VARIABLES
    environ,        \* os.environ after load_dotenv(): name -> value
    model_cache,    \* st.cache_resource of get_model: << >> or << model >>
    built,          \* GenerativeModel objects constructed by the process
    now,            \* the wall clock
    session_state,  \* per session: st.session_state
    widgets,        \* per session: the values the three input widgets hold
    pc,             \* per session: where its script run is
    frame,          \* per session: the locals of the button handler
    display,        \* per session: the elements the last run rendered
    inflight,       \* per session: send_message calls awaiting the service
    sent,           \* per session: send_message calls made
    clicked,        \* per session: Generate clicks with a non-blank topic
    log,            \* per session: the non-empty texts the service returned
    attempt         \* per session: the last run and what it started from

vars ==
    << environ, model_cache, built, now, session_state, widgets, pc, frame,
       display, inflight, sent, clicked, log, attempt >>

NoDownload == [ shown |-> FALSE, data |-> << >>, file_name |-> << >> ]

NoCaption == [ shown |-> FALSE, cuisine |-> << >>, word_count |-> 0 ]

\* nothing rendered
Blank ==
    [ config_error |-> FALSE, page |-> FALSE, warning |-> FALSE, joke |-> "",
      spinner |-> FALSE, error |-> "", success |-> FALSE, title |-> << >>,
      caption |-> NoCaption, recipe |-> << >>, download |-> NoDownload ]

\* header, the three inputs and the Generate button (lines 20-176)
Page == [ Blank EXCEPT !.page = TRUE ]

NoFrame ==
    [ user_input |-> << >>, cuisine_type |-> << >>, word_count |-> 0,
      cuisine_filter |-> None, prompt |-> << >>, model |-> GenerativeModel(0),
      recipe |-> << >> ]

\* text_input "", selectbox first option, number_input value=500
DefaultWidgets ==
    [ user_input |-> << >>, cuisine_type |-> CuisineOptions[1],
      word_count |-> DEFAULT_WORDS ]

NoAttempt(s) ==
    [ kind |-> "none", outcome |-> "none",
      history |-> session_state[s].recipe_history, sent |-> sent[s] ]

\* a topic the user would call blank: every character is white space
IsBlank(topic) == \A i \in 1..Len(topic) : topic[i] \in Whitespace

RECURSIVE SumOver(_, _)
SumOver(f, S) ==
    IF S = {} THEN 0
    ELSE LET x == CHOOSE y \in S : TRUE IN f[x] + SumOver(f, S \ {x})

\* send_message calls made by the whole process
requests == SumOver(sent, Sessions)

(***************************************************************************)
(* Inputs.                                                                 *)
(***************************************************************************)
T_Empty == << >>

T_Space == << " " >>

T_Any == << "A", "n", "y" >>

T_Curry == << "t", "h", "a", "i", " ", "C", "u", "r", "r", "y" >>

T_Padded == << " ", "d", "a", "l", " ", " ", "x", "\t" >>

\* what os.environ may hold after load_dotenv()
Environments ==
    { [ n \in {} |-> << >> ],
      [ n \in {API_KEY_NAME} |-> << >> ],
      [ n \in {API_KEY_NAME} |-> << "k", "1" >> ] }

\* widget values a user sets in the session model
WidgetChoices ==
    { [ user_input |-> T_Space, cuisine_type |-> C_Italian, word_count |-> MIN_WORDS ],
      [ user_input |-> T_Any, cuisine_type |-> C_Any, word_count |-> DEFAULT_WORDS ],
      [ user_input |-> T_Curry, cuisine_type |-> C_AsianFusion, word_count |-> MAX_WORDS ] }

\* widget values of the form model: every option of the selectbox
Topics == { T_Empty, T_Space, T_Any, T_Curry, T_Padded }

WordCounts == { MIN_WORDS, MIN_WORDS + 1, DEFAULT_WORDS, MAX_WORDS }

FormChoices ==
    [ user_input : Topics,
      cuisine_type : { CuisineOptions[i] : i \in 1..Len(CuisineOptions) },
      word_count : WordCounts ]

\* response.text: code points; "A", "é€", a frying pan emoji
R_Empty == << >>

R_Ascii == << 65 >>

R_Wide == << 233, 8364 >>

R_Astral == << 127859, 10 >>

Replies == { R_Empty, R_Ascii, R_Wide }

FormReplies == { R_Empty, R_Ascii, R_Wide, R_Astral }

\* str(e) of what send_message or response.text raises
Exceptions == { "503 Service Unavailable", "403 Permission Denied" }

\* the indexes random.choice draws in the session model
JokeChoices == { 1, Len(jokes) }

(***************************************************************************)
(* Actions.                                                                *)
(***************************************************************************)
Init ==
    /\ environ \in Environments
    /\ model_cache = << >>
    /\ built = 0
    /\ now = ClockStart
    /\ session_state = [ s \in Sessions |-> [ keys |-> {}, recipe_history |-> << >> ] ]
    /\ widgets = [ s \in Sessions |-> DefaultWidgets ]
    /\ pc = [ s \in Sessions |-> "new" ]
    /\ frame = [ s \in Sessions |-> NoFrame ]
    /\ display = [ s \in Sessions |-> Blank ]
    /\ inflight = [ s \in Sessions |-> 0 ]
    /\ sent = [ s \in Sessions |-> 0 ]
    /\ clicked = [ s \in Sessions |-> 0 ]
    /\ log = [ s \in Sessions |-> << >> ]
    /\ attempt = [ s \in Sessions |-> NoAttempt(s) ]

\* lines 11-15: st.error(...); st.stop()
Stop(s, kind) ==
    /\ display' = [ display EXCEPT ![s] = [ Blank EXCEPT !.config_error = TRUE ] ]
    /\ pc' = [ pc EXCEPT ![s] = "stopped" ]
    /\ frame' = [ frame EXCEPT ![s] = NoFrame ]
    /\ attempt' = [ attempt EXCEPT ![s] =
                      [ NoAttempt(s) EXCEPT !.kind = kind, !.outcome = "stopped" ] ]
    /\ UNCHANGED << model_cache, built, session_state, inflight, sent, log >>

\* lines 8-176 with the button not pressed: the whole script, rendering the
\* page and leaving the handler out
Script(s) ==
    IF api_key_missing(environ)
    THEN Stop(s, "run")
    ELSE /\ session_state' = [ session_state EXCEPT
                                 ![s] = init_session_state(session_state[s]) ]
         /\ display' = [ display EXCEPT ![s] = Page ]
         /\ pc' = [ pc EXCEPT ![s] = "idle" ]
         /\ frame' = [ frame EXCEPT ![s] = NoFrame ]
         /\ attempt' = [ attempt EXCEPT ![s] =
                           [ NoAttempt(s) EXCEPT !.kind = "run" ] ]
         /\ UNCHANGED << model_cache, built, inflight, sent, log >>

\* a browser session opens the app, or reloads it: one run of the script
Run(s) ==
    /\ pc[s] # "generating"
    /\ Script(s)
    /\ UNCHANGED << environ, now, widgets, clicked >>

\* the user changes the inputs: the widgets take the values, the script reruns.
\* A session has one script thread; widget events are taken between its runs.
Edit(s, w) ==
    /\ pc[s] = "idle"
    /\ display[s].page
    /\ w # widgets[s]
    /\ w.word_count >= MIN_WORDS
    /\ w.word_count <= MAX_WORDS
    /\ \E i \in 1..Len(CuisineOptions) : CuisineOptions[i] = w.cuisine_type
    /\ widgets' = [ widgets EXCEPT ![s] = w ]
    /\ Script(s)
    /\ UNCHANGED << environ, now, clicked >>

\* mutant: the handler returns the message instead of ""
recipe_generator_except_text(e) == [ error |-> e, result |-> << 63 >> ]

\* lines 118-120: st.error(...); return ""
recipe_generator_except(e) == [ error |-> e, result |-> << >> ]

\* lines 176-190 and 96-116: the button is pressed; the script reruns and the
\* handler runs up to the send_message call, where it blocks
Generate(s, j) ==
    LET user_input == widgets[s].user_input
        cuisine_type == widgets[s].cuisine_type
        word_count == widgets[s].word_count
        cf == cuisine_filter(cuisine_type)
        gm == get_model(model_cache, built)
        inputs == [ NoFrame EXCEPT !.user_input = user_input,
                                   !.cuisine_type = cuisine_type,
                                   !.word_count = word_count ]
        started == [ NoAttempt(s) EXCEPT !.kind = "click" ]
    IN  /\ pc[s] = "idle"
        /\ display[s].page
        /\ clicked' = [ clicked EXCEPT
                          ![s] = @ + (IF IsBlank(user_input) THEN 0 ELSE 1) ]
        /\ UNCHANGED << environ, now, widgets, log >>
        /\ IF api_key_missing(environ)
           THEN Stop(s, "click")
           ELSE /\ session_state' = [ session_state EXCEPT
                                        ![s] = init_session_state(session_state[s]) ]
                /\ IF strip(user_input) = << >>
                   THEN /\ display' = [ display EXCEPT
                                          ![s] = [ Page EXCEPT !.warning = TRUE ] ]
                        /\ frame' = [ frame EXCEPT ![s] = inputs ]
                        /\ attempt' = [ attempt EXCEPT
                                          ![s] = [ started EXCEPT !.outcome = "warned" ] ]
                        /\ UNCHANGED << model_cache, built, pc, inflight, sent >>
                   ELSE /\ display' = [ display EXCEPT
                                          ![s] = [ Page EXCEPT
                                                     !.joke = IF show_joke
                                                              THEN get_joke(j)
                                                              ELSE "",
                                                     !.spinner = TRUE ] ]
                        /\ model_cache' = gm.cache
                        /\ built' = gm.built
                        /\ frame' = [ frame EXCEPT
                                        ![s] = [ inputs EXCEPT
                                                   !.cuisine_filter = cf,
                                                   !.model = gm.model,
                                                   !.prompt = BuildPrompt(user_input,
                                                                 word_count, cf) ] ]
                        /\ inflight' = [ inflight EXCEPT ![s] = @ + 1 ]
                        /\ sent' = [ sent EXCEPT ![s] = @ + 1 ]
                        /\ pc' = [ pc EXCEPT ![s] = "generating" ]
                        /\ attempt' = [ attempt EXCEPT
                                          ![s] = [ started EXCEPT !.outcome = "pending" ] ]

\* lines 192-218: what the handler does with the value of recipe_generator
Finish(s, recipe, error, outcome) ==
    LET f == frame[s]
        shown == [ display[s] EXCEPT !.spinner = FALSE, !.error = error ]
    IN  /\ pc' = [ pc EXCEPT ![s] = "idle" ]
        /\ inflight' = [ inflight EXCEPT ![s] = @ - 1 ]
        /\ frame' = [ frame EXCEPT ![s].recipe = recipe ]
        /\ attempt' = [ attempt EXCEPT ![s].outcome = outcome ]
        /\ IF recipe # << >>
           THEN /\ session_state' =
                      IF save_history
                      THEN [ session_state EXCEPT ![s].recipe_history =
                               save_recipe_to_history(@, strftime(datetime(now)),
                                   f.user_input, recipe, f.word_count,
                                   f.cuisine_type) ]
                      ELSE session_state
                /\ display' = [ display EXCEPT ![s] =
                      [ shown EXCEPT
                          !.success = TRUE,
                          !.title = title(f.user_input),
                          !.caption = IF f.cuisine_type # C_Any
                                      THEN [ shown |-> TRUE,
                                             cuisine |-> f.cuisine_type,
                                             word_count |-> f.word_count ]
                                      ELSE NoCaption,
                          !.recipe = recipe,
                          !.download = [ shown |-> TRUE,
                                         data |-> download_recipe(recipe),
                                         file_name |-> file_name(f.user_input) ] ] ]
           ELSE /\ session_state' = session_state
                /\ display' = [ display EXCEPT ![s] = shown ]
        /\ UNCHANGED << environ, model_cache, built, now, widgets, sent, clicked >>

\* lines 116-117 and 192-218: the service answers and response.text is text
ServiceReturns(s, text) ==
    /\ pc[s] = "generating"
    /\ inflight[s] > 0
    /\ log' = [ log EXCEPT ![s] =
                  IF text = << >> THEN @
                  ELSE Append(@, [ topic |-> widgets[s].user_input,
                                   cuisine |-> widgets[s].cuisine_type,
                                   word_count |-> widgets[s].word_count,
                                   recipe |-> text ]) ]
    /\ Finish(s, text, "", "returned")

\* mutant: the handler sends the prompt again when the call raises
ServiceRaises_retry(s, e) ==
    /\ pc[s] = "generating"
    /\ inflight[s] > 0
    /\ sent' = [ sent EXCEPT ![s] = @ + 1 ]
    /\ display' = [ display EXCEPT ![s].error = e ]
    /\ UNCHANGED << environ, model_cache, built, now, session_state, widgets,
                    pc, frame, inflight, clicked, log, attempt >>

\* lines 118-120 and 192: send_message or response.text raises
ServiceRaises(s, e) ==
    /\ pc[s] = "generating"
    /\ inflight[s] > 0
    /\ log' = log
    /\ Finish(s, recipe_generator_except(e).result,
              recipe_generator_except(e).error, "raised")

\* a second passes
Tick ==
    /\ now < ClockStart + MaxTicks
    /\ now' = now + 1
    /\ UNCHANGED << environ, model_cache, built, session_state, widgets, pc,
                    frame, display, inflight, sent, clicked, log, attempt >>

\* the session model: every session, a few widget values
Next ==
    \/ \E s \in Sessions : Run(s)
    \/ \E s \in Sessions, w \in WidgetChoices : Edit(s, w)
    \/ \E s \in Sessions, j \in JokeChoices : requests < MaxRequests /\ Generate(s, j)
    \/ \E s \in Sessions, text \in Replies : ServiceReturns(s, text)
    \/ \E s \in Sessions, e \in Exceptions : ServiceRaises(s, e)
    \/ Tick

Spec == Init /\ [][Next]_vars

(***************************************************************************)
(* The form model: one session whose script has run once, its widgets      *)
(* holding any of the form's values.                                       *)
(***************************************************************************)
FormSession == CHOOSE s \in Sessions : \A t \in Sessions : s <= t

InitForm ==
    /\ environ = [ n \in {API_KEY_NAME} |-> << "k", "1" >> ]
    /\ model_cache = << >>
    /\ built = 0
    /\ now = ClockStart
    /\ session_state =
          [ s \in Sessions |->
              IF s = FormSession
              THEN init_session_state([ keys |-> {}, recipe_history |-> << >> ])
              ELSE [ keys |-> {}, recipe_history |-> << >> ] ]
    /\ widgets \in { [ s \in Sessions |-> IF s = FormSession THEN w ELSE DefaultWidgets ] :
                       w \in FormChoices }
    /\ pc = [ s \in Sessions |-> IF s = FormSession THEN "idle" ELSE "new" ]
    /\ frame = [ s \in Sessions |-> NoFrame ]
    /\ display = [ s \in Sessions |-> IF s = FormSession THEN Page ELSE Blank ]
    /\ inflight = [ s \in Sessions |-> 0 ]
    /\ sent = [ s \in Sessions |-> 0 ]
    /\ clicked = [ s \in Sessions |-> 0 ]
    /\ log = [ s \in Sessions |-> << >> ]
    /\ attempt = [ s \in Sessions |->
                     [ kind |-> IF s = FormSession THEN "run" ELSE "none",
                       outcome |-> "none", history |-> << >>, sent |-> 0 ] ]

NextForm ==
    \/ \E j \in 1..Len(jokes) :
          requests < MaxFormRequests /\ Generate(FormSession, j)
    \/ \E text \in FormReplies : ServiceReturns(FormSession, text)
    \/ \E e \in Exceptions : ServiceRaises(FormSession, e)

SpecForm == InitForm /\ [][NextForm]_vars

(***************************************************************************)
(* Helpers of the properties.                                              *)
(***************************************************************************)
IsPrefix(a, b) == Len(a) <= Len(b) /\ SubSeq(b, 1, Len(a)) = a

history(s) == session_state[s].recipe_history

\* bytes.decode('utf-8', errors='replace'): a sequence cut short decodes to
\* U+FFFD
RECURSIVE decode(_)
decode(bytes) ==
    IF bytes = << >> THEN << >>
    ELSE LET b == bytes[1]
             n == IF b < 128 THEN 1 ELSE IF b < 224 THEN 2 ELSE IF b < 240 THEN 3 ELSE 4
             c(i) == bytes[i] - 128
             cp == IF n = 1 THEN b
                   ELSE IF n = 2 THEN (b - 192) * 64 + c(2)
                   ELSE IF n = 3 THEN (b - 224) * 4096 + c(2) * 64 + c(3)
                   ELSE (b - 240) * 262144 + c(2) * 4096 + c(3) * 64 + c(4)
         IN  IF n > Len(bytes) THEN << 65533 >>
             ELSE << cp >> \o decode(SubSeq(bytes, n + 1, Len(bytes)))

\* the number a string of decimal digits denotes
RECURSIVE DecimalValue(_)
DecimalValue(s) ==
    IF s = << >> THEN 0
    ELSE DecimalValue(SubSeq(s, 1, Len(s) - 1)) * 10
         + (IndexIn(s[Len(s)], Digits) - 1)

\* the environment has no usable credential
KeyAbsentOrEmpty ==
    \A n \in DOMAIN environ : n = API_KEY_NAME => Len(environ[n]) = 0

\* the part of a session's prompt that follows the quoted topic
AfterTopic(s) ==
    SubSeq(frame[s].prompt,
           Len(PromptHead) + Len(frame[s].user_input) + 1,
           Len(frame[s].prompt))

(***************************************************************************)
(* Properties.                                                             *)
(***************************************************************************)
\* C1: after N generations that returned a non-empty text, a session's
\* History has exactly N records, in the order of the generations, and the
\* k-th record's topic, cuisine, word_count and recipe are the widget values
\* and the returned text of the k-th of them.
C1_HistoryRecordsSuccesses ==
    \A s \in Sessions :
        /\ Len(history(s)) = Len(log[s])
        /\ \A k \in 1..Len(log[s]) :
              /\ history(s)[k].topic = log[s][k].topic
              /\ history(s)[k].cuisine = log[s][k].cuisine
              /\ history(s)[k].word_count = log[s][k].word_count
              /\ history(s)[k].recipe = log[s][k].recipe

C1_Witness ==
    \E s \in Sessions :
        /\ Len(log[s]) = 2
        /\ log[s][1].topic # log[s][2].topic
        /\ Len(history(s)) = 2

\* C2: when the service call raises, recipe_generator returns the empty
\* result, an error message is shown, and the session's History is what it
\* was when the button was pressed.
C2_ExceptionLeavesHistory ==
    \A s \in Sessions :
        attempt[s].outcome = "raised" =>
            /\ frame[s].recipe = << >>
            /\ display[s].error \in Exceptions
            /\ ~ display[s].success
            /\ history(s) = attempt[s].history

C2_Witness ==
    \E s \in Sessions :
        /\ attempt[s].outcome = "raised"
        /\ display[s].error \in Exceptions
        /\ Len(history(s)) = 1

\* C3: a Generate click with an empty or all-white-space topic issues no
\* request and renders the page with the warning and nothing else: no joke,
\* no recipe, no download; History is unchanged.
C3_BlankTopicOnlyWarns ==
    \A s \in Sessions :
        (attempt[s].kind = "click" /\ IsBlank(frame[s].user_input)) =>
            /\ display[s] = [ Page EXCEPT !.warning = TRUE ]
            /\ display[s].joke = ""
            /\ ~ display[s].download.shown
            /\ pc[s] = "idle"
            /\ inflight[s] = 0
            /\ sent[s] = attempt[s].sent
            /\ history(s) = attempt[s].history

C3_Witness ==
    \E s \in Sessions :
        /\ attempt[s].kind = "click"
        /\ frame[s].user_input = T_Space
        /\ display[s].warning
        /\ Len(history(s)) = 1

\* C4 as stated: the prompt contains the topic and the decimal word count,
\* and contains the name of the selected cuisine if and only if the selection
\* is not "Any".
C4_Original ==
    \A s \in Sessions :
        frame[s].prompt # << >> =>
            /\ In(frame[s].user_input, frame[s].prompt)
            /\ In(str(frame[s].word_count), frame[s].prompt)
            /\ In(frame[s].cuisine_type, frame[s].prompt)
                   <=> frame[s].cuisine_type # C_Any

\* C4 amended: the prompt contains the topic and the decimal word count; the
\* text that follows the quoted topic contains the name of the selected
\* cuisine if and only if the selection is not "Any", and then in the clause
\* "Focus on <name> cuisine."; with "Any" no "Focus on" clause follows the
\* topic.
C4_PromptContents ==
    \A s \in Sessions :
        frame[s].prompt # << >> =>
            /\ ~ IsBlank(frame[s].user_input)
            /\ In(frame[s].user_input, frame[s].prompt)
            /\ In(str(frame[s].word_count), frame[s].prompt)
            /\ DecimalValue(str(frame[s].word_count)) = frame[s].word_count
            /\ In(frame[s].cuisine_type, AfterTopic(s))
                   <=> frame[s].cuisine_type # C_Any
            /\ In(FocusOn \o frame[s].cuisine_type \o CuisineEnd, AfterTopic(s))
                   <=> frame[s].cuisine_type # C_Any
            /\ frame[s].cuisine_type = C_Any => ~ In(FocusOn, AfterTopic(s))

C4_Witness ==
    \E s \in Sessions :
        /\ frame[s].prompt # << >>
        /\ frame[s].user_input = T_Padded
        /\ frame[s].cuisine_type = C_AsianFusion
        /\ frame[s].word_count = MAX_WORDS
        /\ In(C_AsianFusion, frame[s].prompt)

\* C5: every Generate click that ends without a recipe on the page leaves a
\* warning or an error message on the page.
C5_EveryFailureIsReported ==
    \A s \in Sessions :
        (attempt[s].kind = "click" /\ pc[s] = "idle" /\ display[s].recipe = << >>) =>
            (display[s].warning \/ display[s].error # "" \/ display[s].config_error)

\* C6: without a credential nothing of the app comes up: no session shows the
\* page, none has a History, no model is constructed, no request is sent.
C6_NoKeyNoApp ==
    KeyAbsentOrEmpty =>
        /\ built = 0
        /\ model_cache = << >>
        /\ requests = 0
        /\ \A s \in Sessions :
              /\ ~ display[s].page
              /\ pc[s] \in {"new", "stopped"}
              /\ session_state[s].keys = {}
              /\ history(s) = << >>
              /\ inflight[s] = 0
              /\ clicked[s] = 0

C6_Witness ==
    /\ API_KEY_NAME \in DOMAIN environ
    /\ KeyAbsentOrEmpty
    /\ \A s \in Sessions : pc[s] = "stopped" /\ display[s].config_error

\* C7: the process constructs the model at most once and not before the
\* first generation request; every request, of any session and whether it
\* fails or not, uses that one object, which stays as constructed.
C7_ModelBuiltOnce ==
    /\ built <= 1
    /\ requests = 0 => (built = 0 /\ model_cache = << >>)
    /\ requests > 0 => (built = 1 /\ model_cache = << GenerativeModel(1) >>)
    /\ \A s \in Sessions :
          frame[s].prompt # << >> => frame[s].model = GenerativeModel(1)

C7_Witness ==
    /\ built = 1
    /\ \A s \in Sessions : sent[s] > 0 /\ frame[s].model = GenerativeModel(1)
    /\ \E s \in Sessions : attempt[s].outcome = "raised"

\* C8: whenever a download is offered its bytes decode to the text that is
\* rendered and that the last History record holds, and its name is the topic
\* with every space turned into an underscore, followed by "_recipe.txt"; a
\* download is offered exactly when the service returned a non-empty text.
C8_DownloadIsTheRecipe ==
    \A s \in Sessions :
        LET d == display[s].download
            topic == frame[s].user_input
        IN  /\ d.shown <=> (attempt[s].outcome = "returned" /\ frame[s].recipe # << >>)
            /\ attempt[s].outcome \in {"raised", "warned", "pending"} => ~ d.shown
            /\ d.shown =>
                  /\ decode(d.data) = display[s].recipe
                  /\ \A i \in 1..Len(d.data) : d.data[i] \in 0..255
                  /\ display[s].recipe = frame[s].recipe
                  /\ history(s)[Len(history(s))].recipe = display[s].recipe
                  /\ Len(d.file_name) = Len(topic) + Len(FileSuffix)
                  /\ \A i \in 1..Len(topic) :
                        d.file_name[i] = IF topic[i] = " " THEN "_" ELSE topic[i]
                  /\ SubSeq(d.file_name, Len(topic) + 1, Len(d.file_name)) = FileSuffix

C8_Witness ==
    \E s \in Sessions :
        /\ display[s].download.shown
        /\ display[s].recipe = R_Astral
        /\ frame[s].user_input = T_Padded
        /\ Len(display[s].download.data) = 5

\* C9: a session sends exactly one request per Generate click with a
\* non-blank topic, has at most one generation in flight, and is generating
\* exactly while that request awaits the service; a request that is awaited
\* is answered or fails before the session sends another, and a failure
\* sends nothing.
C9_OneRequestPerClick ==
    /\ [] (\A s \in Sessions :
             /\ sent[s] = clicked[s]
             /\ inflight[s] \in {0, 1}
             /\ pc[s] = "generating" <=> inflight[s] = 1
             /\ pc[s] = "generating" <=> attempt[s].outcome = "pending")
    /\ [][ \A s \in Sessions :
             /\ pc[s] = "generating" =>
                   /\ sent'[s] = sent[s]
                   /\ pc'[s] \in {"generating", "idle"}
                   /\ pc'[s] = "idle" => attempt'[s].outcome \in {"returned", "raised"}
             /\ sent'[s] # sent[s] =>
                   /\ sent'[s] = sent[s] + 1
                   /\ pc[s] = "idle"
                   /\ pc'[s] = "generating" ]_vars

C9_Witness ==
    \E s \in Sessions :
        /\ sent[s] = 2
        /\ clicked[s] = 2
        /\ pc[s] = "idle"
        /\ attempt[s].outcome = "raised"

\* C10: a session's History starts empty, is created once, and from then on
\* every step leaves it a prefix of its next value: no run of the script
\* resets it, no record is removed, reordered or changed.
C10_HistoryAppendOnly ==
    [][ \A s \in Sessions :
          LET a == session_state[s]
              b == session_state'[s]
          IN  /\ "recipe_history" \notin a.keys =>
                    (a.recipe_history = << >> /\ b.recipe_history = << >>)
              /\ "recipe_history" \in a.keys =>
                    /\ "recipe_history" \in b.keys
                    /\ IsPrefix(a.recipe_history, b.recipe_history) ]_vars

C10_Witness ==
    \E s \in Sessions :
        /\ Len(history(s)) = 2
        /\ attempt[s].kind = "run"
        /\ pc[s] = "idle"

====
